---- MODULE Spec2Model ----
(***************************************************************************)
(* Cramerton Development Tracker API (src/backend/main.py).                *)
(*                                                                         *)
(* The persisted dataset is one CSV blob.  The blob is modelled at the     *)
(* level csv.reader / csv.writer work at: a sequence of rows, each row a   *)
(* sequence of cell texts; the first row is the header.  A row of no cells *)
(* is a blank line.  A Python dict is an insertion-ordered sequence of     *)
(* <<key, value>> pairs with distinct keys.  Every endpoint is split at    *)
(* its I/O points: arrival (the get_current_user dependency), load_data,   *)
(* and the rest of the handler (with save_data for the mutating ones).     *)
(* The requests modelled are the ones slowapi's limiter lets through: a    *)
(* request over its budget is answered 429 and touches nothing.            *)
(***************************************************************************)
EXTENDS Integers, Sequences, FiniteSets, TLC

\* ------------------------------------------------------------------ bounds
MaxRows == 2          \* data rows of the dataset (initially, and cap for POST)
MaxClock == 45        \* minutes the clock may reach
TickStep == 15        \* minutes one clock step advances

\* ------------------------------------------------------- program constants
ACCESS_TOKEN_EXPIRE_MINUTES == 30
ADMIN_USERNAME == "admin"
ADMIN_PASSWORD == "secret"

\* Python None (JSON null).  It is not a cell text: no cell holds this string.
None == "<None>"

Clients == {1, 2}

\* ------------------------------------------------------------ Python dicts
Keys(d) == [i \in 1..Len(d) |-> d[i][1]]

KeySet(d) == {d[i][1] : i \in 1..Len(d)}

Has(d, k) == \E i \in 1..Len(d) : d[i][1] = k

Get(d, k) == d[CHOOSE i \in 1..Len(d) : d[i][1] = k][2]

\* d[k] = v : an existing key keeps its position, a new key goes last
Put(d, k, v) ==
    IF Has(d, k)
    THEN [i \in 1..Len(d) |-> IF d[i][1] = k THEN <<k, v>> ELSE d[i]]
    ELSE Append(d, <<k, v>>)

\* rowdict.get(key, restval)
GetOr(d, k, dflt) == IF Has(d, k) THEN Get(d, k) ELSE dflt

\* ------------------------------------------------------------ csv.DictReader
\* dict(zip(fieldnames, row)), then d[key] = restval (None) for the field
\* names the row has no cell for.  Cells i <= n of the row are consumed.
RECURSIVE ZipRow(_, _, _)
ZipRow(fieldnames, row, n) ==
    IF n = 0 THEN <<>>
    ELSE Put(ZipRow(fieldnames, row, n - 1), fieldnames[n],
             IF n <= Len(row) THEN row[n] ELSE None)

DictRow(fieldnames, row) == ZipRow(fieldnames, row, Len(fieldnames))

NonBlank(row) == row # <<>>

\* list(csv.DictReader(...)): the first row is the header, blank rows are
\* skipped, every other row becomes a dict
DictReader(csv) ==
    IF Len(csv) = 0 THEN <<>>
    ELSE LET data == SelectSeq(Tail(csv), NonBlank)
         IN  [i \in 1..Len(data) |-> DictRow(csv[1], data[i])]

\* load_data without its clean-up loop
KeepValue(v) == v

\* "Clean up empty values": if not value: project[key] = None
CleanValue(v) == IF v = "" \/ v = None THEN None ELSE v

CleanProject(p) == [i \in 1..Len(p) |-> <<p[i][1], CleanValue(p[i][2])>>]

\* load_data, given the blob's content
load_data(csv) ==
    LET projects == DictReader(csv)
    IN  [i \in 1..Len(projects) |-> CleanProject(projects[i])]

\* ------------------------------------------------------------ csv.DictWriter
\* the writer emits None as the empty text
CellText(v) == IF v = None THEN "" ELSE v

\* a DictWriter made with extrasaction='ignore'
WrongFieldsIgnored(fieldnames, rowdict) == {}

\* DictWriter._dict_to_list with extrasaction='raise' (the default):
\* a key outside fieldnames raises ValueError
WrongFields(fieldnames, rowdict) ==
    {k \in KeySet(rowdict) : \A i \in 1..Len(fieldnames) : fieldnames[i] # k}

WriteRow(fieldnames, rowdict) ==
    [i \in 1..Len(fieldnames) |-> CellText(GetOr(rowdict, fieldnames[i], ""))]

\* writer.writerows raises ValueError on some row
WriteError(projects) ==
    \E i \in 1..Len(projects) : WrongFields(Keys(projects[1]), projects[i]) # {}

\* writeheader + writerows with fieldnames = projects[0].keys()
CsvText(projects) ==
    <<Keys(projects[1])>> \o
    [i \in 1..Len(projects) |-> WriteRow(Keys(projects[1]), projects[i])]

\* ------------------------------------------------------------------ save_data
\* The outcome of save_data(projects) on a blob holding csv: the blob's new
\* content, whether the call raised and whether upload_blob overwrote the
\* blob.  An empty list returns before anything
\* is written; a row the writer rejects raises before the upload; the upload
\* itself either overwrites the blob or raises (uploadOk).
Saved(csv, raised, uploaded) ==
    [csv |-> csv, raised |-> raised, uploaded |-> uploaded]

\* save_data without "if not projects: return", writing the empty text
SaveDataTruncating(projects, csv, uploadOk) ==
    IF projects # <<>> /\ WriteError(projects) THEN Saved(csv, TRUE, FALSE)
    ELSE IF ~uploadOk THEN Saved(csv, TRUE, FALSE)
    ELSE Saved(IF projects = <<>> THEN <<>> ELSE CsvText(projects), FALSE, TRUE)

\* save_data over an upload that is not atomic: a failing upload leaves the
\* header row behind
SaveDataTornUpload(projects, csv, uploadOk) ==
    IF projects = <<>> THEN Saved(csv, FALSE, FALSE)
    ELSE IF WriteError(projects) THEN Saved(csv, TRUE, FALSE)
    ELSE IF ~uploadOk THEN Saved(<<Keys(projects[1])>>, TRUE, TRUE)
    ELSE Saved(CsvText(projects), FALSE, TRUE)

save_data(projects, csv, uploadOk) ==
    IF projects = <<>> THEN Saved(csv, FALSE, FALSE)
    ELSE IF WriteError(projects) THEN Saved(csv, TRUE, FALSE)
    ELSE IF ~uploadOk THEN Saved(csv, TRUE, FALSE)
    ELSE Saved(CsvText(projects), FALSE, TRUE)

\* ------------------------------------------------------------------ lookups
\* p['Category'] == category and p['Project Name'] == project_name, with the
\* KeyError a missing key raises ("and" evaluates its right side only when the
\* left side is true)
KeyErr(p, category, project_name) ==
    \/ ~Has(p, "Category")
    \/ Get(p, "Category") = category /\ ~Has(p, "Project Name")

Match(p, category, project_name) ==
    /\ Has(p, "Category") /\ Get(p, "Category") = category
    /\ Has(p, "Project Name") /\ Get(p, "Project Name") = project_name

\* the first position at which the scan stops: a match or a KeyError;
\* Len(projects) + 1 when the scan runs to the end
RECURSIVE ScanStop(_, _, _, _)
ScanStop(projects, category, project_name, i) ==
    IF i > Len(projects) THEN i
    ELSE IF KeyErr(projects[i], category, project_name)
            \/ Match(projects[i], category, project_name) THEN i
    ELSE ScanStop(projects, category, project_name, i + 1)

\* next(...) over the generator raised KeyError
ScanRaises(projects, category, project_name) ==
    LET i == ScanStop(projects, category, project_name, 1)
    IN  i <= Len(projects) /\ KeyErr(projects[i], category, project_name)

\* next((i for i, p in enumerate(projects) if ...), -1), 1-based; -1 if none
project_index(projects, category, project_name) ==
    LET i == ScanStop(projects, category, project_name, 1)
    IN  IF i <= Len(projects) THEN i ELSE -1

\* a list comprehension visits every element: KeyError if any test raises
AnyKeyErr(projects, category, project_name) ==
    \E i \in 1..Len(projects) : KeyErr(projects[i], category, project_name)

\* "Update only existing fields": the first n items of project_data applied
RECURSIVE MergeItems(_, _, _)
MergeItems(project, project_data, n) ==
    IF n = 0 THEN project
    ELSE LET merged == MergeItems(project, project_data, n - 1)
             key == project_data[n][1]
             value == project_data[n][2]
         IN  IF Has(merged, key) THEN Put(merged, key, value) ELSE merged

\* the merge without "if key in projects[project_index]"
RECURSIVE UpdateItems(_, _, _)
UpdateItems(project, project_data, n) ==
    IF n = 0 THEN project
    ELSE Put(UpdateItems(project, project_data, n - 1),
             project_data[n][1], project_data[n][2])

MergePatchAddsKeys(project, project_data) ==
    UpdateItems(project, project_data, Len(project_data))

MergePatch(project, project_data) ==
    MergeItems(project, project_data, Len(project_data))

NotMatching(projects, category, project_name) ==
    LET Keep(p) == ~Match(p, category, project_name)
    IN  SelectSeq(projects, Keep)

\* ------------------------------------------------------------------ handlers
\* What each handler does after load_data returned projects: the response
\* status, the response body and the blob's content afterwards.
Response(status, body, csv) ==
    [status |-> status, body |-> body, csv |-> csv, uploaded |-> FALSE]

\* the answer of a handler whose last statement before "return" is save_data
AfterSave(saved) ==
    [status |-> IF saved.raised THEN 500 ELSE 200, body |-> <<>>,
     csv |-> saved.csv, uploaded |-> saved.uploaded]

\* "except Exception as e: raise HTTPException(status_code=500, ...)" of the
\* mutating handlers: HTTPException is an Exception, so whatever status was
\* raised inside the try block leaves as 500
ExceptException(status) == 500

get_projects(projects, csv) == Response(200, projects, csv)

get_projects_by_category(projects, category, csv) ==
    IF \E i \in 1..Len(projects) : ~Has(projects[i], "Category")
    THEN Response(500, <<>>, csv)
    ELSE LET InCat(p) == Get(p, "Category") = category
         IN  Response(200, SelectSeq(projects, InCat), csv)

get_project_details(projects, category, project_name, csv) ==
    IF ScanRaises(projects, category, project_name)
    THEN Response(500, <<>>, csv)
    ELSE LET i == project_index(projects, category, project_name)
         IN  IF i = -1 \/ projects[i] = <<>>
             THEN Response(404, <<>>, csv)
             ELSE Response(200, projects[i], csv)

\* update_project merging into the blob's content at save time instead of
\* into the list it loaded
UpdateProjectReloads(projects, category, project_name, project_data, csv, uploadOk) ==
    LET current == load_data(csv)
        i == project_index(current, category, project_name)
    IN  IF ScanRaises(current, category, project_name) \/ i = -1
        THEN Response(500, <<>>, csv)
        ELSE AfterSave(save_data(
                 [current EXCEPT ![i] = MergePatch(current[i], project_data)],
                 csv, uploadOk))

update_project(projects, category, project_name, project_data, csv, uploadOk) ==
    IF ScanRaises(projects, category, project_name)
    THEN Response(500, <<>>, csv)
    ELSE LET i == project_index(projects, category, project_name)
         IN  IF i = -1
             THEN Response(ExceptException(404), <<>>, csv)
             ELSE LET updated == [projects EXCEPT
                                    ![i] = MergePatch(projects[i], project_data)]
                  IN  AfterSave(save_data(updated, csv, uploadOk))

add_project(projects, project_data, csv, uploadOk) ==
    AfterSave(save_data(Append(projects, project_data), csv, uploadOk))

delete_project(projects, category, project_name, csv, uploadOk) ==
    IF AnyKeyErr(projects, category, project_name)
    THEN Response(500, <<>>, csv)
    ELSE LET remaining == NotMatching(projects, category, project_name)
         IN  IF Len(remaining) = Len(projects)
             THEN Response(ExceptException(404), <<>>, csv)
             ELSE AfterSave(save_data(remaining, csv, uploadOk))

\* ------------------------------------------------------------------ auth gate
\* A bearer token: the payload (sub, exp) and who signed it.  Only the server
\* holds SECRET_KEY, so a token not made by create_access_token carries a
\* signature that does not verify.
Token(sub, exp, sig) == [sub |-> sub, exp |-> exp, sig |-> sig]

NoToken == Token(None, 0, "none")

\* create_access_token(data={"sub": username}, expires_delta=...) at time now
create_access_token(username, expires_delta, now) ==
    Token(username, now + expires_delta, "server")

\* login_for_access_token: the credentials are refused
LoginRefused(username, password) ==
    username # ADMIN_USERNAME \/ password # ADMIN_PASSWORD

\* jwt.decode with options={"verify_exp": False}
JWTErrorIgnoresExpiry(token, now) == token.sig # "server"

\* jwt.decode raises JWTError: no bearer token, a bad signature, or exp passed
JWTError(token, now) == token.sig # "server" \/ token.exp < now

\* get_current_user returns a user (no 401)
get_current_user(token, now) == ~JWTError(token, now) /\ token.sub # None

\* ------------------------------------------------------------------ state
VARIABLES
    blob,        \* content of Development_Status.csv in the container
    storageUp,   \* Azure Storage answers (a call made while it is down raises)
    clock,       \* utcnow(), in minutes
    issued,      \* the /token calls that returned a token: what was posted,
                 \* when, and the token handed out
    pc,          \* per client: "idle", "authed", "loaded", "saved", "done"
    req,         \* per client: the request being served
    snap,        \* per client: the list load_data returned to the handler
    resp,        \* per client: the response (status 0: none yet)
    stale,       \* per client: the blob was overwritten since it loaded
    lastWriter   \* the client whose upload wrote the blob's content (0: none)

vars == <<blob, storageUp, clock, issued, pc, req, snap, resp, stale, lastWriter>>

Request(method, category, name, data, token) ==
    [method |-> method, category |-> category, name |-> name,
     data |-> data, token |-> token]

NoRequest == Request("", "", "", <<>>, NoToken)

NoResponse == [status |-> 0, body |-> <<>>]

Mutating == {"update_project", "add_project", "delete_project"}

\* ------------------------------------------------------------------ inputs
Categories == {"Rezoning", "Final Plat"}

Names == {"Oak St", "Elm St"}

Header == <<"Category", "Project Name", "Comments Due Date">>

\* the rows the dataset may start with: a pair held twice (with and without a
\* date), the same category under another name, the same name in another
\* category
Rows ==
    { <<"Rezoning", "Oak St", "">>, <<"Rezoning", "Oak St", "03/15/2025">>,
      <<"Rezoning", "Elm St", "03/15/2025">>, <<"Final Plat", "Oak St", "">> }

\* the datasets the service may start on: the header and up to MaxRows rows
RECURSIVE RowSeqs(_)
RowSeqs(n) ==
    IF n = 0 THEN {<<>>}
    ELSE LET shorter == RowSeqs(n - 1)
         IN  shorter \cup {Append(s, r) : s \in {t \in shorter : Len(t) = n - 1},
                                          r \in Rows}

Datasets == {<<Header>> \o rows : rows \in RowSeqs(MaxRows)}

\* PUT bodies
Patches ==
    { <<<<"Comments Due Date", "">>>>,
      <<<<"NewField", "x">>>>,
      <<<<"Comments Due Date", "03/15/2025">>, <<"NewField", "x">>>>,
      <<<<"Project Name", "Elm St">>>> }

\* POST bodies: a full record, one with an unknown field, one with the
\* fields in another order and the date missing, one without Category
Bodies ==
    { <<<<"Category", "Rezoning">>, <<"Project Name", "Oak St">>,
        <<"Comments Due Date", "03/15/2025">>>>,
      <<<<"Category", "Rezoning">>, <<"Project Name", "Oak St">>,
        <<"Comments Due Date", "">>, <<"NewField", "x">>>>,
      <<<<"Project Name", "Elm St">>, <<"Category", "Final Plat">>>>,
      <<<<"Project Name", "Oak St">>>> }

Requests(tokens) ==
    {Request("get_projects", "", "", <<>>, t) : t \in tokens}
    \cup {Request("get_projects_by_category", c, "", <<>>, t) :
            c \in Categories, t \in tokens}
    \cup {Request(m, c, n, <<>>, t) :
            m \in {"get_project_details", "delete_project"},
            c \in Categories, n \in Names, t \in tokens}
    \cup {Request("update_project", c, n, d, t) :
            c \in Categories, n \in Names, d \in Patches, t \in tokens}
    \cup {Request("add_project", "", "", d, t) : d \in Bodies, t \in tokens}

IssuedTokens == {e.token : e \in issued}

\* ------------------------------------------------------------------ actions
\* The service starts on a blob holding csv: no token issued, no request
Start(csv) ==
    /\ blob = csv
    /\ storageUp = TRUE
    /\ clock = 0
    /\ issued = {}
    /\ pc = [c \in Clients |-> "idle"]
    /\ req = [c \in Clients |-> NoRequest]
    /\ snap = [c \in Clients |-> <<>>]
    /\ resp = [c \in Clients |-> NoResponse]
    /\ stale = [c \in Clients |-> FALSE]
    /\ lastWriter = 0

Init == \E csv \in Datasets : Start(csv)

\* POST /token
login_for_access_token(username, password) ==
    /\ ~LoginRefused(username, password)
    /\ issued' = issued \cup
         {[username |-> username, password |-> password, at |-> clock,
           token |-> create_access_token(username,
                                         ACCESS_TOKEN_EXPIRE_MINUTES, clock)]}
    /\ UNCHANGED <<blob, storageUp, clock, pc, req, snap, resp, stale, lastWriter>>

\* POST /token answered 401: nothing is issued
LoginFails(username, password) ==
    /\ LoginRefused(username, password)
    /\ UNCHANGED vars

\* Azure Storage goes down, or comes back
StorageChange ==
    /\ storageUp' = ~storageUp
    /\ UNCHANGED <<blob, clock, issued, pc, req, snap, resp, stale, lastWriter>>

Tick ==
    /\ clock + TickStep <= MaxClock
    /\ clock' = clock + TickStep
    /\ UNCHANGED <<blob, storageUp, issued, pc, req, snap, resp, stale, lastWriter>>

\* A request for a /projects endpoint arrives: Depends(get_current_user)
\* runs before the handler and answers 401 itself
Arrive(c, r) ==
    /\ pc[c] = "idle"
    /\ r.method = "add_project" => Len(blob) <= MaxRows
    /\ req' = [req EXCEPT ![c] = r]
    /\ IF get_current_user(r.token, clock)
       THEN /\ pc' = [pc EXCEPT ![c] = "authed"]
            /\ UNCHANGED resp
       ELSE /\ pc' = [pc EXCEPT ![c] = "done"]
            /\ resp' = [resp EXCEPT ![c] = [status |-> 401, body |-> <<>>]]
    /\ UNCHANGED <<blob, storageUp, clock, issued, snap, stale, lastWriter>>

\* projects = load_data(): the download succeeds, or load_data raises
\* HTTPException(500) and the request ends (re-raised as 500 by the mutating
\* handlers' except clause)
LoadData(c) ==
    /\ pc[c] = "authed"
    /\ IF storageUp
       THEN /\ snap' = [snap EXCEPT ![c] = load_data(blob)]
            /\ pc' = [pc EXCEPT ![c] = "loaded"]
            /\ stale' = [stale EXCEPT ![c] = FALSE]
            /\ UNCHANGED resp
       ELSE /\ pc' = [pc EXCEPT ![c] = "done"]
            /\ resp' = [resp EXCEPT ![c] = [status |-> 500, body |-> <<>>]]
            /\ UNCHANGED <<snap, stale>>
    /\ UNCHANGED <<blob, storageUp, clock, issued, req, lastWriter>>

\* the handler ends with outcome out
Finish(c, out) ==
    /\ pc' = [pc EXCEPT ![c] = "done"]
    /\ resp' = [resp EXCEPT ![c] = [status |-> out.status, body |-> out.body]]
    /\ blob' = out.csv
    /\ IF out.uploaded
       THEN /\ lastWriter' = c
            /\ stale' = [d \in Clients |-> stale[d] \/ (d # c /\ pc[d] = "loaded")]
       ELSE UNCHANGED <<lastWriter, stale>>
    /\ UNCHANGED <<storageUp, clock, issued, req, snap>>

GetProjects(c) ==
    /\ pc[c] = "loaded" /\ req[c].method = "get_projects"
    /\ Finish(c, get_projects(snap[c], blob))

GetProjectsByCategory(c) ==
    /\ pc[c] = "loaded" /\ req[c].method = "get_projects_by_category"
    /\ Finish(c, get_projects_by_category(snap[c], req[c].category, blob))

GetProjectDetails(c) ==
    /\ pc[c] = "loaded" /\ req[c].method = "get_project_details"
    /\ Finish(c, get_project_details(snap[c], req[c].category, req[c].name, blob))

UpdateProject(c) ==
    /\ pc[c] = "loaded" /\ req[c].method = "update_project"
    /\ Finish(c, update_project(snap[c], req[c].category, req[c].name,
                             req[c].data, blob, storageUp))

AddProject(c) ==
    /\ pc[c] = "loaded" /\ req[c].method = "add_project"
    /\ Finish(c, add_project(snap[c], req[c].data, blob, storageUp))

DeleteProject(c) ==
    /\ pc[c] = "loaded" /\ req[c].method = "delete_project"
    /\ Finish(c, delete_project(snap[c], req[c].category, req[c].name,
                             blob, storageUp))

\* the response is sent; nothing of the request outlives it
Reply(c) ==
    /\ pc[c] = "done"
    /\ pc' = [pc EXCEPT ![c] = "idle"]
    /\ req' = [req EXCEPT ![c] = NoRequest]
    /\ snap' = [snap EXCEPT ![c] = <<>>]
    /\ resp' = [resp EXCEPT ![c] = NoResponse]
    /\ stale' = [stale EXCEPT ![c] = FALSE]
    /\ UNCHANGED <<blob, storageUp, clock, issued, lastWriter>>

Handle(c) ==
    \/ LoadData(c)
    \/ GetProjects(c)
    \/ GetProjectsByCategory(c)
    \/ GetProjectDetails(c)
    \/ UpdateProject(c)
    \/ AddProject(c)
    \/ DeleteProject(c)
    \/ Reply(c)

\* One client at a time, every endpoint, a frozen clock
Next ==
    \/ login_for_access_token(ADMIN_USERNAME, ADMIN_PASSWORD)
    \/ StorageChange
    \/ \E r \in Requests(IssuedTokens) : Arrive(1, r)
    \/ Handle(1)

Spec == Init /\ [][Next]_vars

\* ------------------------------------------------------- the auth gate at work
\* One dataset, one request per endpoint; every kind of credentials and of
\* bearer token, and a clock that runs past a token's lifetime
Usernames == {ADMIN_USERNAME, "guest"}

Passwords == {ADMIN_PASSWORD, "wrong"}

\* tokens nobody got from /token: the signature does not verify
ForgedTokens ==
    { Token(ADMIN_USERNAME, MaxClock + ACCESS_TOKEN_EXPIRE_MINUTES, "forged"),
      Token(None, MaxClock + ACCESS_TOKEN_EXPIRE_MINUTES, "forged") }

AuthRequests(tokens) ==
    {Request("get_projects", "", "", <<>>, t) : t \in tokens}
    \cup {Request("get_projects_by_category", "Rezoning", "", <<>>, t) :
            t \in tokens}
    \cup {Request(m, "Rezoning", "Oak St", <<>>, t) :
            m \in {"get_project_details", "delete_project"}, t \in tokens}
    \cup {Request("update_project", "Rezoning", "Oak St",
                  <<<<"Comments Due Date", "03/15/2025">>>>, t) : t \in tokens}
    \cup {Request("add_project", "", "",
                  <<<<"Category", "Rezoning">>, <<"Project Name", "Oak St">>,
                    <<"Comments Due Date", "">>>>, t) : t \in tokens}

InitAuth ==
    Start(<<Header, <<"Rezoning", "Oak St", "">>, <<"Final Plat", "Oak St", "">>>>)

NextAuth ==
    \/ \E u \in Usernames, p \in Passwords : login_for_access_token(u, p)
    \/ \E u \in Usernames, p \in Passwords : LoginFails(u, p)
    \/ Tick
    \/ \E r \in AuthRequests(IssuedTokens \cup ForgedTokens \cup {NoToken}) :
         Arrive(1, r)
    \/ Handle(1)

SpecAuth == InitAuth /\ [][NextAuth]_vars

\* ------------------------------------------------------- concurrent updates
\* Two clients, each sending PUTs for the same record
ConcPatches ==
    { <<<<"Comments Due Date", "03/15/2025">>>>,
      <<<<"Comments Due Date", "04/01/2025">>>>,
      <<<<"Project Name", "Elm St">>>> }

ConcRequests(tokens) ==
    {Request("update_project", "Rezoning", "Oak St", d, t) :
       d \in ConcPatches, t \in tokens}

InitConc ==
    \/ Start(<<Header, <<"Rezoning", "Oak St", "">>>>)
    \/ Start(<<Header, <<"Rezoning", "Oak St", "">>,
                       <<"Rezoning", "Oak St", "03/15/2025">>>>)

NextConc ==
    \/ login_for_access_token(ADMIN_USERNAME, ADMIN_PASSWORD)
    \/ \E c \in Clients :
         \/ \E r \in ConcRequests(IssuedTokens) : Arrive(c, r)
         \/ LoadData(c)
         \/ UpdateProject(c)
         \/ Reply(c)

SpecConc == InitConc /\ [][NextConc]_vars

\* ------------------------------------------------------- load, save, load
\* load_data and save_data applied to CSV texts as an editor or a spreadsheet
\* leaves them: blank lines, rows that stop short of the header, a column
\* name used twice.  No row is longer than the header row (the data model's
\* "a record's field set is fixed by the dataset's header row").
Cells == {"", "x"}

RECURSIVE CellSeqs(_)
CellSeqs(n) ==
    IF n = 0 THEN {<<>>}
    ELSE LET shorter == CellSeqs(n - 1)
         IN  shorter \cup {Append(s, v) : s \in {t \in shorter : Len(t) = n - 1},
                                          v \in Cells}

Headers ==
    { Header, <<"Category", "Project Name">>,
      <<"Category", "Project Name", "Category">> }

RECURSIVE RaggedRows(_, _)
RaggedRows(header, n) ==
    IF n = 0 THEN {<<>>}
    ELSE LET shorter == RaggedRows(header, n - 1)
         IN  shorter \cup {Append(s, r) : s \in {t \in shorter : Len(t) = n - 1},
                                          r \in CellSeqs(Len(header))}

InitRoundTrip ==
    \E header \in Headers :
       \E rows \in RaggedRows(header, MaxRows) : Start(<<header>> \o rows)

\* records = loadAll()
RoundTripLoad ==
    /\ pc[1] = "idle"
    /\ snap' = [snap EXCEPT ![1] = load_data(blob)]
    /\ pc' = [pc EXCEPT ![1] = "loaded"]
    /\ UNCHANGED <<blob, storageUp, clock, issued, req, resp, stale, lastWriter>>

\* saveAll(records), the records unchanged
RoundTripSave ==
    /\ pc[1] = "loaded"
    /\ LET saved == save_data(snap[1], blob, storageUp)
       IN  /\ blob' = saved.csv
           /\ pc' = [pc EXCEPT ![1] = IF saved.raised THEN "done" ELSE "saved"]
           /\ resp' = [resp EXCEPT ![1] =
                         [status |-> IF saved.raised THEN 500 ELSE 0,
                          body |-> <<>>]]
    /\ UNCHANGED <<storageUp, clock, issued, req, snap, stale, lastWriter>>

\* loadAll() again
RoundTripReload ==
    /\ pc[1] = "saved"
    /\ resp' = [resp EXCEPT ![1] = [status |-> 200, body |-> load_data(blob)]]
    /\ pc' = [pc EXCEPT ![1] = "done"]
    /\ UNCHANGED <<blob, storageUp, clock, issued, req, snap, stale, lastWriter>>

NextRoundTrip == RoundTripLoad \/ RoundTripSave \/ RoundTripReload

SpecRoundTrip == InitRoundTrip /\ [][NextRoundTrip]_vars

\* ====================================================================== claims
\* The record carries the pair (category, name)
HasPair(p, category, name) ==
    /\ \E i \in 1..Len(p) : p[i] = <<"Category", category>>
    /\ \E i \in 1..Len(p) : p[i] = <<"Project Name", name>>

\* The positions of client c's snapshot that hold the pair c asks for
Matching(c) ==
    {i \in 1..Len(snap[c]) : HasPair(snap[c][i], req[c].category, req[c].name)}

FirstMatching(c) == CHOOSE i \in Matching(c) : \A j \in Matching(c) : i <= j

\* The old record with the patch's values at the keys the record already has
Patched(old, patch) ==
    [n \in 1..Len(old) |->
        IF \E m \in 1..Len(patch) : patch[m][1] = old[n][1]
        THEN LET m == CHOOSE m \in 1..Len(patch) : patch[m][1] = old[n][1]
             IN  <<old[n][1], IF patch[m][2] = "" THEN None ELSE patch[m][2]>>
        ELSE old[n]]

\* Client c's handler for method m ends in this step
Finishes(c, m) == pc[c] = "loaded" /\ req[c].method = m /\ pc'[c] = "done"

\* C1: a PUT whose pair matches a record persists (storage answering) the
\* loaded dataset with the first matching record patched at the keys it already
\* has: the other records, the record's field names and the header's columns
\* are as before, so a patch of unknown keys alone changes nothing.
C1_PutMergesKnownKeysOnly ==
    [][\A c \in Clients :
         (Finishes(c, "update_project") /\ storageUp /\ Matching(c) # {}) =>
            LET i == FirstMatching(c)
                reloaded == load_data(blob')
            IN  /\ resp'[c].status = 200
                /\ reloaded =
                     [snap[c] EXCEPT ![i] = Patched(snap[c][i], req[c].data)]
                /\ Keys(reloaded[i]) = Keys(snap[c][i])
                /\ {blob'[1][n] : n \in 1..Len(blob'[1])} = KeySet(snap[c][i])
                /\ (\A m \in 1..Len(req[c].data) :
                       ~Has(snap[c][i], req[c].data[m][1])) => reloaded = snap[c]
      ]_vars

\* C1 witness: a PUT of {"Comments Due Date": "03/15/2025", "NewField": "x"}
\* answered 200; the record had no date and now has this one, and no NewField
C1_Witness ==
    /\ pc[1] = "done" /\ req[1].method = "update_project"
    /\ resp[1].status = 200
    /\ req[1].data = <<<<"Comments Due Date", "03/15/2025">>, <<"NewField", "x">>>>
    /\ Matching(1) # {}
    /\ Get(snap[1][FirstMatching(1)], "Comments Due Date") = None
    /\ LET now == load_data(blob)
       IN  /\ Get(now[FirstMatching(1)], "Comments Due Date") = "03/15/2025"
           /\ \A i \in 1..Len(now) : ~Has(now[i], "NewField")

\* C2 (as claimed): a DELETE whose pair matches k >= 1 of the N records succeeds
\* and persists the dataset without the k matching records, the others in order.
C2_DeleteRemovesAllMatching ==
    [][\A c \in Clients :
         (Finishes(c, "delete_project") /\ storageUp /\ Matching(c) # {}) =>
            LET Other(p) == ~HasPair(p, req[c].category, req[c].name)
            IN  /\ resp'[c].status = 200
                /\ load_data(blob') = SelectSeq(snap[c], Other)
      ]_vars

\* C3 (as claimed): a PUT or DELETE whose pair matches no record of the loaded
\* dataset (every record carrying both identity fields) is answered 404.
C3_AbsentPairAnswers404 ==
    [][\A c \in Clients :
         ( /\ Finishes(c, "update_project") \/ Finishes(c, "delete_project")
           /\ Matching(c) = {}
           /\ \A i \in 1..Len(snap[c]) :
                Has(snap[c][i], "Category") /\ Has(snap[c][i], "Project Name") )
         => resp'[c].status = 404
      ]_vars

\* The POST body has a field the first loaded record lacks
UnknownField(c) ==
    /\ snap[c] # <<>>
    /\ \E m \in 1..Len(req[c].data) : ~Has(snap[c][1], req[c].data[m][1])

\* C4 (as claimed): a POST whose record has a field outside the first loaded
\* record's key set is saved (storage answering): one more record, the header
\* unchanged, the unknown field dropped.
C4_UnknownFieldDropped ==
    [][\A c \in Clients :
         (Finishes(c, "add_project") /\ storageUp /\ UnknownField(c)) =>
            /\ resp'[c].status = 200
            /\ blob'[1] = blob[1]
            /\ Len(load_data(blob')) = Len(snap[c]) + 1
      ]_vars

\* C4 (amended): a POST whose record has a field outside the first loaded
\* record's key set is answered 500 and nothing is written: the blob is as
\* it was and no upload took place.
C4_UnknownFieldRejected ==
    [][\A c \in Clients :
         (Finishes(c, "add_project") /\ UnknownField(c)) =>
            /\ resp'[c].status = 500
            /\ blob' = blob
            /\ lastWriter' = lastWriter
      ]_vars

\* C4 witness: a POST with NewField on a dataset of at least one record has
\* been answered 500 while storage answers
C4_Witness ==
    /\ pc[1] = "done" /\ req[1].method = "add_project"
    /\ resp[1].status = 500 /\ storageUp
    /\ UnknownField(1) /\ Has(req[1].data, "NewField")
    /\ load_data(blob) = snap[1]

\* C5: save_data of the empty list (what DELETE passes once every record
\* matched) uploads nothing and returns: the blob is as it was, whatever it
\* holds and whether or not storage answers, and the handler reports success.
C5_SaveEmptyIsNoOp ==
    [][\A c \in Clients :
         (Finishes(c, "delete_project") /\ snap[c] # <<>>
            /\ Matching(c) = 1..Len(snap[c])) =>
            /\ blob' = blob
            /\ lastWriter' = lastWriter
            /\ resp'[c].status = 200
      ]_vars

\* C5 witness: a DELETE matching every record has been answered 200 and the
\* blob still holds them all
C5_Witness ==
    /\ pc[1] = "done" /\ req[1].method = "delete_project"
    /\ resp[1].status = 200
    /\ Len(snap[1]) = 2 /\ Matching(1) = {1, 2}
    /\ load_data(blob) = snap[1]

OtherClient(c) == CHOOSE d \in Clients : d # c

\* C7: whatever the interleaving of two PUTs, the persisted dataset is the one
\* the last upload wrote, i.e. that request's own snapshot with its own patch;
\* when the other request uploaded between this one's load and save, the fields
\* only the other patch set hold the snapshot's values again: its update is lost.
C7_LastSaveWins ==
    \A c \in Clients :
       (lastWriter = c /\ pc[c] = "done" /\ resp[c].status = 200) =>
          LET i == FirstMatching(c)
              d == OtherClient(c)
              final == load_data(blob)
          IN  /\ final = [snap[c] EXCEPT ![i] = Patched(snap[c][i], req[c].data)]
              /\ (stale[c] /\ pc[d] = "done" /\ resp[d].status = 200) =>
                    \A m \in 1..Len(req[d].data) :
                       LET k == req[d].data[m][1]
                       IN  (Has(snap[c][i], k) /\ ~Has(req[c].data, k)) =>
                              Get(final[i], k) = Get(snap[c][i], k)

\* C7 witness: both PUTs answered 200, client 2 saved last from a snapshot
\* taken before client 1 saved, and the date client 1 set is gone
C7_Witness ==
    /\ pc[1] = "done" /\ resp[1].status = 200
    /\ pc[2] = "done" /\ resp[2].status = 200
    /\ lastWriter = 2 /\ stale[2]
    /\ req[1].data = <<<<"Comments Due Date", "03/15/2025">>>>
    /\ req[2].data = <<<<"Project Name", "Elm St">>>>
    /\ Get(load_data(blob)[1], "Project Name") = "Elm St"
    /\ Get(load_data(blob)[1], "Comments Due Date") = None

\* The token was handed out by a /token call that posted the admin pair, at
\* most ACCESS_TOKEN_EXPIRE_MINUTES ago, and names a subject
Accepted(token) ==
    /\ token.sub # None
    /\ \E e \in issued :
         /\ e.token = token
         /\ e.username = ADMIN_USERNAME /\ e.password = ADMIN_PASSWORD
         /\ clock - e.at <= ACCESS_TOKEN_EXPIRE_MINUTES

\* C8: a request for a /projects endpoint gets to load (and then save) only on
\* such a token; any other request is answered 401 with nothing loaded or
\* saved.  The dataset is read and written by admitted requests only.
C8_OnlyAcceptedTokensReachData ==
    [][ /\ \A c \in Clients :
             /\ (pc[c] = "idle" /\ pc'[c] # "idle") =>
                   IF Accepted(req'[c].token)
                   THEN pc'[c] = "authed"
                   ELSE /\ pc'[c] = "done" /\ resp'[c].status = 401
                        /\ blob' = blob /\ snap' = snap
             /\ (pc[c] # "loaded" /\ pc'[c] = "loaded") => pc[c] = "authed"
             /\ (snap'[c] # snap[c] /\ pc'[c] # "idle") => pc[c] = "authed"
        /\ blob' # blob => \E c \in Clients : pc[c] = "loaded"
      ]_vars

\* C8 witness: a token /token handed out, presented after its 30 minutes,
\* has been answered 401
C8_Witness ==
    /\ pc[1] = "done" /\ resp[1].status = 401
    /\ req[1].token \in IssuedTokens
    /\ req[1].token.exp < clock
    /\ req[1].method = "update_project"

\* C9 (as claimed): GET /projects/{category}/{name} answers with the first
\* record holding the pair, and with 404 exactly when no record holds it.
C9_DetailsFirstMatchOr404 ==
    [][\A c \in Clients :
         Finishes(c, "get_project_details") =>
            IF Matching(c) # {}
            THEN /\ resp'[c].status = 200
                 /\ resp'[c].body = snap[c][FirstMatching(c)]
            ELSE resp'[c].status = 404
      ]_vars

\* C10: a PUT, POST or DELETE answered with an error leaves the blob as it
\* was, and the blob changes only in the step in which a PUT, POST or DELETE
\* ends with success.
C10_ErrorsLeaveBlob ==
    [][ /\ \A c \in Clients :
             (pc[c] # "done" /\ pc'[c] = "done" /\ resp'[c].status # 200) =>
                blob' = blob
        /\ blob' # blob =>
              \E c \in Clients :
                 /\ pc[c] = "loaded" /\ req[c].method \in Mutating
                 /\ pc'[c] = "done" /\ resp'[c].status = 200
      ]_vars

\* C10 witness: a DELETE of a pair the dataset holds, next to a record it does
\* not remove, has been answered 500 and the blob still holds every record
C10_Witness ==
    /\ pc[1] = "done" /\ req[1].method = "delete_project"
    /\ resp[1].status = 500
    /\ Matching(1) # {} /\ Matching(1) # 1..Len(snap[1])
    /\ load_data(blob) = snap[1]

====
